---------------------------- MODULE Spec2Model ----------------------------
(***************************************************************************)
(* A model of the numerical functions of the repository:                   *)
(*   - power_series.py : CoeffComputer (the memoised tables m, b, c, n)    *)
(*   - dimensions.py   : multiplicity sequences, penta, r0, r, n0, n, n_min*)
(*   - ramero.py       : e, w, r                                           *)
(*   - check.py        : the driver's calls                                *)
(*                                                                         *)
(* Python integers are unbounded while TLC's are 32 bit wide, so every     *)
(* quantity that outgrows 32 bits is carried as a natural number in        *)
(* positional notation (a sequence of limbs, least significant first).     *)
(***************************************************************************)
EXTENDS Integers, Sequences, FiniteSets, TLC

(***************************************************************************)
(* Unbounded naturals: <<l1, ..., lk>> stands for sum l_i * Base^(i-1),    *)
(* with 0 <= l_i < Base and lk # 0; zero is <<>>.                          *)
(***************************************************************************)
Base == 10 * 10 * 10

Limb(a, i) == IF i <= Len(a) THEN a[i] ELSE 0

RECURSIVE NNorm(_)
NNorm(a) ==
    IF a # <<>> /\ a[Len(a)] = 0 THEN NNorm(SubSeq(a, 1, Len(a) - 1)) ELSE a

RECURSIVE NFromInt(_)
NFromInt(x) == IF x = 0 THEN <<>> ELSE <<x % Base>> \o NFromInt(x \div Base)

\* A literal written in groups of three decimal digits, most significant
\* first: Lit(<<20, 700, 541>>) is 20,700,541.
RECURSIVE Reverse(_)
Reverse(s) == IF s = <<>> THEN <<>> ELSE Append(Reverse(Tail(s)), Head(s))

Lit(groups) == NNorm(Reverse(groups))

RECURSIVE NAddC(_, _, _, _)
NAddC(a, b, i, carry) ==
    IF i > Len(a) /\ i > Len(b)
    THEN IF carry = 0 THEN <<>> ELSE <<carry>>
    ELSE LET s == Limb(a, i) + Limb(b, i) + carry
         IN  <<s % Base>> \o NAddC(a, b, i + 1, s \div Base)

NAdd(a, b) == NAddC(a, b, 1, 0)

\* a - b for a >= b
RECURSIVE NSubC(_, _, _, _)
NSubC(a, b, i, borrow) ==
    IF i > Len(a) THEN <<>>
    ELSE LET s == a[i] - Limb(b, i) - borrow
         IN  <<IF s < 0 THEN s + Base ELSE s>>
                 \o NSubC(a, b, i + 1, IF s < 0 THEN 1 ELSE 0)

NSub(a, b) == NNorm(NSubC(a, b, 1, 0))

\* a * x for one limb 0 <= x < Base
RECURSIVE NMulLimbC(_, _, _, _)
NMulLimbC(a, x, i, carry) ==
    IF i > Len(a)
    THEN IF carry = 0 THEN <<>> ELSE <<carry>>
    ELSE LET s == a[i] * x + carry
         IN  <<s % Base>> \o NMulLimbC(a, x, i + 1, s \div Base)

RECURSIVE NMulR(_, _, _)
NMulR(a, b, i) ==
    IF i > Len(b) THEN <<>>
    ELSE NAdd(NMulLimbC(a, b[i], 1, 0), <<0>> \o NMulR(a, b, i + 1))

NMul(a, b) == IF a = <<>> \/ b = <<>> THEN <<>> ELSE NNorm(NMulR(a, b, 1))

\* quotient and remainder of a by an integer 0 < x < 2^31 / Base
RECURSIVE NDivR(_, _, _, _)
NDivR(a, x, i, rem) ==
    IF i = 0 THEN [q |-> <<>>, r |-> rem]
    ELSE LET cur  == rem * Base + a[i]
             rest == NDivR(a, x, i - 1, cur % x)
         IN  [q |-> Append(rest.q, cur \div x), r |-> rest.r]

NDivMod(a, x) ==
    LET res == NDivR(a, x, Len(a), 0) IN [q |-> NNorm(res.q), r |-> res.r]

RECURSIVE NLessR(_, _, _)
NLessR(a, b, i) ==
    IF i = 0 THEN FALSE
    ELSE IF a[i] # b[i] THEN a[i] < b[i] ELSE NLessR(a, b, i - 1)

NLess(a, b) ==
    IF Len(a) # Len(b) THEN Len(a) < Len(b) ELSE NLessR(a, b, Len(a))

NMax(a, b) == IF NLess(a, b) THEN b ELSE a

\* binomial(top, k) for a natural top and a small k, 0 when top < k:
\* C(top, t+1) = C(top, t) * (top - t) / (t + 1), exact at every step.
RECURSIVE NBinomR(_, _, _, _)
NBinomR(top, k, t, acc) ==
    IF t = k \/ acc = <<>> THEN acc
    ELSE NBinomR(top, k, t + 1,
                 NDivMod(NMul(acc, NSub(top, NFromInt(t))), t + 1).q)

NBinom(top, k) ==
    IF k = 0 THEN <<1>>
    ELSE IF NLess(top, NFromInt(k)) THEN <<>>
    ELSE NBinomR(top, k, 0, <<1>>)


(***************************************************************************)
(* Exact rationals with a small denominator (sympy's Rational): a pair     *)
(* num / den in lowest terms, num a natural, den >= 1.                     *)
(***************************************************************************)
RECURSIVE GCD(_, _)
GCD(x, y) == IF y = 0 THEN x ELSE GCD(y, x % y)

\* Rational(1, den) * num
Rat(num, den) ==
    LET g == GCD(den, NDivMod(num, den).r)
    IN  [num |-> NDivMod(num, g).q, den |-> den \div g]

\* rational + integer
RatAddInt(q, x) == [num |-> NAdd(q.num, NMul(x, NFromInt(q.den))), den |-> q.den]

\* int(q): truncation (the values are never negative)
RatToInt(q) == NDivMod(q.num, q.den).q

\* sympy's binomial(p + off, k) for a natural p, off >= -1 and k >= 0; the
\* top p + off is negative only where k = 0, and binomial(x, 0) = 1.
binomial(p, off, k) ==
    IF k = 0 THEN <<1>> ELSE NBinom(NAdd(p, NFromInt(off)), k)

(***************************************************************************)
(* power_series.py: CoeffComputer.  The memo tables are the variables ms   *)
(* (self._ms) and cs (self._cs), functions from pairs <<i, j>>.  The       *)
(* methods call each other recursively, so a call is executed step by step *)
(* on an explicit call stack: one frame per active invocation, the last    *)
(* frame the running one.  A frame is                                      *)
(*   [fn, i, j : the method and its arguments,                             *)
(*    pc       : where the invocation stands,                              *)
(*    p        : m_prime (in m), r (in c), the first m(i,0) (in b),        *)
(*    k        : the index of the list comprehension,                      *)
(*    acc      : the sum of the comprehension's terms so far].             *)
(* ret is the value the last finished invocation returned; call describes  *)
(* the driver's call and its outcome.                                      *)
(*                                                                         *)
(* b and c compute in floating point.  Their float results are not         *)
(* represented (kind "float"); what is modelled of them is every call they *)
(* make, every table access and every exception.                           *)
(***************************************************************************)
VARIABLES ms, cs, stack, ret, call

coeffVars == <<ms, cs, stack, ret, call>>

\* Put, keyed by the row alone
Put_row(memo, key, v) == (<<key[1], 0>> :> v) @@ memo

\* memo[key] = v
Put(memo, key, v) == (key :> v) @@ memo

IntVal(x)   == [kind |-> "int", v |-> x]
FloatVal    == [kind |-> "float", v |-> <<>>]

Frame(f, i, j) ==
    [fn |-> f, i |-> i, j |-> j, pc |-> "start", p |-> <<>>, k |-> 0, acc |-> <<>>]

Top == stack[Len(stack)]

Rest == SubSeq(stack, 1, Len(stack) - 1)

\* the running invocation moves to pc (with its locals updated) and calls g(i, j)
Invoke(frame, g, i, j) == stack' = Append(Append(Rest, frame), Frame(g, i, j))

\* the running invocation returns v to its caller, or to the driver
Return(v) ==
    /\ stack' = Rest
    /\ ret' = v
    /\ call' = IF Len(stack) = 1 THEN [call EXCEPT !.status = "returned", !.val = v]
               ELSE call

\* the running invocation raises; nothing on the stack catches, so the
\* exception reaches the driver
Raise(exc) ==
    /\ stack' = <<>>
    /\ ret' = ret
    /\ call' = [call EXCEPT !.status = "raised", !.exc = exc]

\* the j = 0 branch of m: Rational(1,2) * (m_prime**2 - m_prime) + m(i-1,1)
m_first(p, next) == RatAddInt(Rat(NSub(NMul(p, p), p), 2), next)

\* m_lead with Rational(1, j+1) for Rational(1, j+2)
m_lead_j1(p, j) ==
    Rat(NMul(binomial(p, j - 1, j),
             NAdd(NAdd(NMul(p, p), NMul(NFromInt(j - 1), p)), <<2>>)),
        j + 1)

\* the leading term of the j >= 1 branch:
\* Rational(1,j+2) * binomial(p+j-1, j) * (p**2 + (j-1)*p + 2)
m_lead(p, j) ==
    Rat(NMul(binomial(p, j - 1, j),
             NAdd(NAdd(NMul(p, p), NMul(NFromInt(j - 1), p)), <<2>>)),
        j + 2)

\* m_term with binomial(p+j-k, j-k) for binomial(p+j-k-1, j-k)
m_term_off(p, j, k, v) == NMul(binomial(p, j - k, j - k), v)

\* one term of the comprehension: binomial(p+j-k-1, j-k) * self.m(i-1,k+1)
m_term(p, j, k, v) == NMul(binomial(p, j - k - 1, j - k), v)

\* m(i, j), entered: the base case, a memo hit, or the call of m(i-1, 0)
m_enter ==
    /\ stack # <<>> /\ Top.fn = "m" /\ Top.pc = "start"
    /\ UNCHANGED <<ms, cs>>
    /\ IF Top.i = 0
       THEN Return(IntVal(IF Top.j = 0 THEN <<1>> ELSE <<>>))
       ELSE IF <<Top.i, Top.j>> \in DOMAIN ms
       THEN Return(IntVal(RatToInt(ms[<<Top.i, Top.j>>])))
       ELSE /\ Invoke([Top EXCEPT !.pc = "m_prime"], "m", Top.i - 1, 0)
            /\ UNCHANGED <<ret, call>>

\* m_prime = self.m(i-1, 0) has returned: m(i-1, 1) is called next, by the
\* j = 0 branch or as the comprehension's first term
m_prime ==
    /\ stack # <<>> /\ Top.fn = "m" /\ Top.pc = "m_prime"
    /\ Invoke([Top EXCEPT !.p = ret.v, !.pc = IF Top.j = 0 THEN "first" ELSE "sum"],
              "m", Top.i - 1, 1)
    /\ UNCHANGED <<ms, cs, ret, call>>

\* j = 0: self.m(i-1, 1) has returned; store and return
m_store_first ==
    /\ stack # <<>> /\ Top.fn = "m" /\ Top.pc = "first"
    /\ LET v == m_first(Top.p, ret.v)
       IN  /\ ms' = Put(ms, <<Top.i, Top.j>>, v)
           /\ Return(IntVal(RatToInt(v)))
    /\ cs' = cs

\* j >= 1: self.m(i-1, k+1) has returned; the next term, or store and return
m_sum ==
    /\ stack # <<>> /\ Top.fn = "m" /\ Top.pc = "sum"
    /\ LET acc == NAdd(Top.acc, m_term(Top.p, Top.j, Top.k, ret.v))
       IN  IF Top.k < Top.j
           THEN /\ Invoke([Top EXCEPT !.k = Top.k + 1, !.acc = acc],
                          "m", Top.i - 1, Top.k + 2)
                /\ UNCHANGED <<ms, ret, call>>
           ELSE LET v == RatAddInt(m_lead(Top.p, Top.j), acc)
                IN  /\ ms' = Put(ms, <<Top.i, Top.j>>, v)
                    /\ Return(IntVal(RatToInt(v)))
    /\ cs' = cs

\* b(i, j), entered: math.comb(self.m(i,0) + j - 1, j) calls m(i, 0)
b_enter ==
    /\ stack # <<>> /\ Top.fn = "b" /\ Top.pc = "start"
    /\ Invoke([Top EXCEPT !.pc = "comb"], "m", Top.i, 0)
    /\ UNCHANGED <<ms, cs, ret, call>>

\* math.comb(m + j - 1, j) rejects a negative first argument; then the
\* divisor self.m(i,0)**j calls m(i, 0) again
b_comb ==
    /\ stack # <<>> /\ Top.fn = "b" /\ Top.pc = "comb"
    /\ UNCHANGED <<ms, cs>>
    /\ IF ret.v = <<>> /\ Top.j = 0
       THEN Raise("ValueError")
       ELSE /\ Invoke([Top EXCEPT !.p = ret.v, !.pc = "pow"], "m", Top.i, 0)
            /\ UNCHANGED <<ret, call>>

\* comb / m**j, a float; 0**j is 0 for j > 0
b_div ==
    /\ stack # <<>> /\ Top.fn = "b" /\ Top.pc = "pow"
    /\ UNCHANGED <<ms, cs>>
    /\ IF ret.v = <<>> /\ Top.j > 0
       THEN Raise("ZeroDivisionError")
       ELSE Return(FloatVal)

\* c(i, j), entered: the domain checks, the constant of row 7, a memo hit,
\* or r = self.m(i, 0)
c_enter ==
    /\ stack # <<>> /\ Top.fn = "c" /\ Top.pc = "start"
    /\ UNCHANGED <<ms, cs>>
    /\ IF Top.j = 0 THEN Raise("Exception")
       ELSE IF Top.i <= 6 THEN Raise("Exception")
       ELSE IF Top.i = 7 THEN Return(IntVal(<<1>>))
       ELSE IF <<Top.i, Top.j>> \in DOMAIN cs THEN Return(cs[<<Top.i, Top.j>>])
       ELSE /\ Invoke([Top EXCEPT !.pc = "r"], "m", Top.i, 0)
            /\ UNCHANGED <<ret, call>>

\* r = self.m(i, 0) has returned: self.b(i-1, j) is called
c_r ==
    /\ stack # <<>> /\ Top.fn = "c" /\ Top.pc = "r"
    /\ Invoke([Top EXCEPT !.p = ret.v, !.pc = "lead"], "b", Top.i - 1, Top.j)
    /\ UNCHANGED <<ms, cs, ret, call>>

\* (self.b(i-1,j)/(j+2)) * (1 + (j-1)/math.sqrt(2*r) + 1/r): both quotients
\* divide by zero for r = 0; then the comprehension starts with b(i-1, j)
c_lead ==
    /\ stack # <<>> /\ Top.fn = "c" /\ Top.pc = "lead"
    /\ UNCHANGED <<ms, cs>>
    /\ IF Top.p = <<>>
       THEN Raise("ZeroDivisionError")
       ELSE /\ Invoke([Top EXCEPT !.pc = "term_b"], "b", Top.i - 1, Top.j)
            /\ UNCHANGED <<ret, call>>

\* c_term_b calling self.c(i-1, k) for self.c(i-1, k+1)
c_term_b_k ==
    /\ stack # <<>> /\ Top.fn = "c" /\ Top.pc = "term_b"
    /\ Invoke([Top EXCEPT !.pc = "term_c"], "c", Top.i - 1, Top.k)
    /\ UNCHANGED <<ms, cs, ret, call>>

\* self.b(i-1, j-k) has returned: self.c(i-1, k+1) is called
c_term_b ==
    /\ stack # <<>> /\ Top.fn = "c" /\ Top.pc = "term_b"
    /\ Invoke([Top EXCEPT !.pc = "term_c"], "c", Top.i - 1, Top.k + 1)
    /\ UNCHANGED <<ms, cs, ret, call>>

\* self.c(i-1, k+1) has returned: the next term, or store and return
c_term_c ==
    /\ stack # <<>> /\ Top.fn = "c" /\ Top.pc = "term_c"
    /\ ms' = ms
    /\ IF Top.k < Top.j
       THEN /\ Invoke([Top EXCEPT !.k = Top.k + 1, !.pc = "term_b"],
                      "b", Top.i - 1, Top.j - (Top.k + 1))
            /\ UNCHANGED <<cs, ret, call>>
       ELSE /\ cs' = Put(cs, <<Top.i, Top.j>>, FloatVal)
            /\ Return(FloatVal)

\* Bounds on the driver's arguments: m(i, j) for i <= MaxI, j <= MaxJ alone
\* (SpecCoeff); m(i, j) for j <= MaxMJ with c(i, j) for j <= MaxCJ, i <= MaxCI,
\* on one instance (SpecMemo).
MaxI == 8
MaxJ == 3
MaxCI == 8
MaxCJ == 1
MaxMJ == 0

NoCall == [fn |-> "none", i |-> 0, j |-> 0, status |-> "none", val |-> IntVal(<<>>),
           exc |-> "", first |-> FALSE, n_ms |-> 0, n_cs |-> 0]

InitCoeff == ms = <<>> /\ cs = <<>> /\ stack = <<>> /\ ret = IntVal(<<>>) /\ call = NoCall

\* the driver calls C.f(i, j)
Call(f, i, j) ==
    /\ stack = <<>>
    /\ stack' = <<Frame(f, i, j)>>
    /\ call' = [fn |-> f, i |-> i, j |-> j, status |-> "running", val |-> IntVal(<<>>),
                exc |-> "", first |-> call.fn = "none",
                n_ms |-> Cardinality(DOMAIN ms), n_cs |-> Cardinality(DOMAIN cs)]
    /\ UNCHANGED <<ms, cs, ret>>

Call_m == \E i \in 0..MaxI, j \in 0..MaxJ : Call("m", i, j)

\* check.py, verify_2_14: R = sum([C.m(i,0) for i in range(d-1)]), one call
\* of C.m per element; the frame's i is d, k the index, acc the sum
R_enter ==
    /\ stack # <<>> /\ Top.fn = "R" /\ Top.pc = "start"
    /\ IF 0 < Top.i - 1
       THEN /\ Invoke([Top EXCEPT !.pc = "sum", !.k = 0], "m", 0, 0)
            /\ UNCHANGED <<ret, call>>
       ELSE Return(IntVal(<<>>))
    /\ UNCHANGED <<ms, cs>>

\* R_sum over range(d) for range(d-1)
R_sum_more ==
    /\ stack # <<>> /\ Top.fn = "R" /\ Top.pc = "sum"
    /\ LET acc == NAdd(Top.acc, ret.v)
       IN  IF Top.k + 1 < Top.i
           THEN /\ Invoke([Top EXCEPT !.k = @ + 1, !.acc = acc], "m", Top.k + 1, 0)
                /\ UNCHANGED <<ret, call>>
           ELSE Return(IntVal(acc))
    /\ UNCHANGED <<ms, cs>>

R_sum ==
    /\ stack # <<>> /\ Top.fn = "R" /\ Top.pc = "sum"
    /\ LET acc == NAdd(Top.acc, ret.v)
       IN  IF Top.k + 1 < Top.i - 1
           THEN /\ Invoke([Top EXCEPT !.k = @ + 1, !.acc = acc], "m", Top.k + 1, 0)
                /\ UNCHANGED <<ret, call>>
           ELSE Return(IntVal(acc))
    /\ UNCHANGED <<ms, cs>>

(***************************************************************************)
(* Signed integers of any size: [neg, mag] with mag a natural and zero     *)
(* never negative.  Entries of multiplicity sequences and the values of r  *)
(* stay within 32 bits for every input of the model (the largest entry is  *)
(* 20 700 541, the largest r is 6479) and are plain integers; the values   *)
(* of n0 and n are not.                                                    *)
(***************************************************************************)
ZInt(x) == [neg |-> x < 0, mag |-> NFromInt(IF x < 0 THEN 0 - x ELSE x)]

ZNat(a) == [neg |-> FALSE, mag |-> a]

\* z + 1
ZSucc(z) ==
    IF z.neg
    THEN LET a == NSub(z.mag, <<1>>) IN [neg |-> a # <<>>, mag |-> a]
    ELSE ZNat(NAdd(z.mag, <<1>>))

ZLess(y, z) ==
    IF y.neg # z.neg THEN y.neg
    ELSE IF y.neg THEN NLess(z.mag, y.mag) ELSE NLess(y.mag, z.mag)

\* max(y, z)
ZMax(y, z) == IF ZLess(y, z) THEN z ELSE y

\* int(a) for a natural below 2^31
RECURSIVE NToInt(_)
NToInt(a) == IF a = <<>> THEN 0 ELSE Head(a) + Base * NToInt(Tail(a))

\* math.comb(top, k) for integers 0 <= k, 0 <= top: 0 when k > top
comb(top, k) ==
    IF k > top THEN <<>>
    ELSE NBinom(NFromInt(top), IF k < top - k THEN k ELSE top - k)

(***************************************************************************)
(* dimensions.py.  A multiplicity sequence is a Python list; the list      *)
(* index i is the sequence index i + 1 here.                               *)
(***************************************************************************)
RECURSIVE sum(_)
sum(nu) == IF nu = <<>> THEN 0 ELSE Head(nu) + sum(Tail(nu))

\* degree_to_mu with i < d for i < d-1
degree_to_mu_all(d, mult) == [x \in 1..d |-> IF x - 1 < d THEN 0 ELSE mult]

degree_to_mu(d, mult) == [x \in 1..d |-> IF x - 1 < d - 1 THEN 0 ELSE mult]

is_linear(nu) == \A x \in 1..Len(nu) : ~(x - 1 > 0 /\ nu[x] > 0)

is_quadric(nu) ==
    \A x \in 1..Len(nu) :
        /\ ~(x - 1 = 1 /\ (nu[x] = 0 \/ nu[x] > 1))
        /\ ~(x - 1 > 1 /\ nu[x] > 0)

\* the list after trim(nu), which works in place
RECURSIVE trim(_)
trim(nu) ==
    IF nu # <<>> /\ nu[Len(nu)] = 0 THEN trim(SubSeq(nu, 1, Len(nu) - 1)) ELSE nu

pointed_lines(nu) == [x \in 1..Len(nu) |-> sum(SubSeq(nu, x, Len(nu)))]

\* penta without mu_prime[-1] -= 1
penta_last(nu) ==
    IF is_linear(nu) THEN <<>>
    ELSE LET t    == trim(nu)
             sums == pointed_lines(t)
         IN  IF Len(t) > 1 THEN [sums EXCEPT ![Len(t) - 1] = @ - 1] ELSE sums

\* the list penta(nu) returns (nu itself is trimmed in place on the way)
penta(nu) ==
    IF is_linear(nu) THEN <<>>
    ELSE LET t    == trim(nu)
             sums == pointed_lines(t)
             last == [sums EXCEPT ![Len(t)] = @ - 1]
         IN  IF Len(t) > 1 THEN [last EXCEPT ![Len(t) - 1] = @ - 1] ELSE last

RECURSIVE r0_sum(_, _)
r0_sum(nu, x) == IF x > Len(nu) THEN 0 ELSE (x - 1) * nu[x] + r0_sum(nu, x + 1)

r0(nu) == r0_sum(nu, 1) - 1

\* sum([mu[d] * comb(d+1+r, r) for d in range(len(mu))]), from index x on
RECURSIVE n0_sum(_, _, _)
n0_sum(nu, rr, x) ==
    IF x > Len(nu) THEN <<>>
    ELSE NAdd(NMul(NFromInt(nu[x]), comb(x + rr, rr)), n0_sum(nu, rr, x + 1))

\* rr + ceil(Fraction(1, rr) * (total - 1)) for rr >= 1
n0_general(total, rr) ==
    IF total = <<>> THEN ZInt(rr + (IF rr = 1 THEN 0 - 1 ELSE 0))
    ELSE ZNat(NAdd(NFromInt(rr),
                   NDivMod(NAdd(NSub(total, <<1>>), NFromInt(rr - 1)), rr).q))

\* n0 with the quadric branch taken for every sequence
n0_quadric(nu, rr) ==
    IF rr < 0 - 1 THEN ZInt(0)
    ELSE IF rr = 0 - 1 THEN ZInt(sum(nu) - 1)
    ELSE IF rr = 0 THEN ZInt(sum(pointed_lines(nu)))
    ELSE ZInt(2 * rr + sum(nu) + 1)

n0(nu, rr) ==
    IF rr < 0 - 1 THEN ZInt(0)
    ELSE IF rr = 0 - 1 THEN ZInt(sum(nu) - 1)
    ELSE IF rr = 0 THEN ZInt(sum(pointed_lines(nu)))
    ELSE IF is_quadric(nu) THEN ZInt(2 * rr + sum(nu) + 1)
    ELSE n0_general(n0_sum(nu, rr, 1), rr)

(***************************************************************************)
(* The state of a run of the dimension functions on one input:             *)
(*   arg       : what the driver passed, degree_to_mu's arguments d, mult   *)
(*               or a list given literally (seq),                          *)
(*   mu        : the driver's list object, which r and penta trim in place,*)
(*   outcome   : how degree_to_mu ended,                                   *)
(*   quad      : the result of is_quadric(mu),                             *)
(*   mu_prime, depth, r_max, n_max : the locals of r and of n,             *)
(*   rv        : the value r(mu) returned, the r of n(mu, r),              *)
(*   R         : verify_2_14's R,                                          *)
(*   dpc       : where the run stands.                                     *)
(***************************************************************************)
VARIABLES arg, mu, outcome, quad, mu_prime, depth, r_max, n_max, rv, R, dpc

dimVars == <<arg, mu, outcome, quad, mu_prime, depth, r_max, n_max, rv, R, dpc>>

\* Bounds on the driver's inputs: literal lists of at most MaxLen entries in
\* 0..MaxEntry, degree_to_mu(d, mult) for d down to -MaxNeg and mult up to
\* MaxMult; MaxIter caps the iterations of one loop.
MaxLen == 3
MaxEntry == 2
MaxNeg == 1
MaxMult == 2
MaxIter == 6500

\* check.py: verify_values runs d over range(3,10), verify_2_14 over range(3,8)
MaxDegree == 9
MaxLemma == 7

Lists == UNION {[1..len -> 0..MaxEntry] : len \in 0..MaxLen}

InitDim ==
    /\ arg = [kind |-> "none", d |-> 0, mult |-> 0, seq |-> <<>>]
    /\ mu = <<>> /\ outcome = "none" /\ quad = FALSE
    /\ mu_prime = <<>> /\ depth = 0 /\ r_max = 0 /\ n_max = ZInt(0) /\ rv = 0
    /\ R = 0 /\ dpc = "idle"

\* mu = degree_to_mu(d, mult)
DegreeToMu ==
    /\ dpc = "idle"
    /\ \E d \in (0 - MaxNeg)..MaxDegree, mult \in 0..MaxMult :
           /\ arg' = [kind |-> "degree", d |-> d, mult |-> mult, seq |-> <<>>]
           /\ mu' = degree_to_mu(d, mult)
    /\ outcome' = "returned"
    /\ dpc' = "have_mu"
    /\ UNCHANGED <<quad, mu_prime, depth, r_max, n_max, rv, R>>

\* mu is a list the caller wrote down
Literal ==
    /\ dpc = "idle"
    /\ \E seq \in Lists :
           /\ arg' = [kind |-> "literal", d |-> 0, mult |-> 0, seq |-> seq]
           /\ mu' = seq
    /\ dpc' = "have_mu"
    /\ UNCHANGED <<outcome, quad, mu_prime, depth, r_max, n_max, rv, R>>

IsQuadric ==
    /\ dpc = "have_mu"
    /\ quad' = is_quadric(mu)
    /\ dpc' = "quadric"
    /\ UNCHANGED <<arg, mu, outcome, mu_prime, depth, r_max, n_max, rv, R>>

\* n_min(mu), that is n(mu, r(mu)): r(mu) is evaluated first.  On a list from
\* degree_to_mu it is called as check.py calls it, with the default m = 1.
n_min ==
    /\ dpc = "have_mu"
    /\ arg.kind = "literal" \/ arg.mult = 1
    /\ dpc' = "r"
    /\ UNCHANGED <<arg, mu, outcome, quad, mu_prime, depth, r_max, n_max, rv, R>>

\* r(mu) up to the loop: trim(mu), the empty case, r_max, mu_prime, depth
r_enter ==
    /\ dpc = "r"
    /\ mu' = trim(mu)
    /\ IF mu' = <<>>
       THEN /\ rv' = 0 - 2
            /\ dpc' = "n"
            /\ UNCHANGED <<mu_prime, depth, r_max>>
       ELSE /\ r_max' = r0(mu')
            /\ mu_prime' = mu'
            /\ depth' = 0
            /\ dpc' = "r_loop"
            /\ UNCHANGED rv
    /\ UNCHANGED <<arg, outcome, quad, n_max, R>>

\* one iteration of r's loop; at depth 0 mu_prime is mu itself, which penta trims
r_step ==
    /\ dpc = "r_loop"
    /\ ~is_linear(mu_prime)
    /\ depth < MaxIter
    /\ mu_prime' = penta(mu_prime)
    /\ mu' = IF depth = 0 THEN trim(mu) ELSE mu
    /\ depth' = depth + 1
    /\ r_max' = LET cand == r0(mu_prime') + depth' IN IF cand > r_max THEN cand ELSE r_max
    /\ UNCHANGED <<arg, outcome, quad, n_max, rv, R, dpc>>

r_return ==
    /\ dpc = "r_loop"
    /\ is_linear(mu_prime)
    /\ rv' = r_max
    /\ dpc' = "n"
    /\ UNCHANGED <<arg, mu, outcome, quad, mu_prime, depth, r_max, n_max, R>>

\* n(mu, r) up to the loop
n_enter ==
    /\ dpc = "n"
    /\ n_max' = n0(mu, rv)
    /\ mu_prime' = mu
    /\ depth' = 0
    /\ dpc' = "n_loop"
    /\ UNCHANGED <<arg, mu, outcome, quad, r_max, rv, R>>

n_step ==
    /\ dpc = "n_loop"
    /\ ~is_linear(mu_prime)
    /\ depth < MaxIter
    /\ mu_prime' = penta(mu_prime)
    /\ mu' = IF depth = 0 THEN trim(mu) ELSE mu
    /\ depth' = depth + 1
    /\ n_max' = ZMax(n_max, ZSucc(n0(mu_prime', rv - 1)))
    /\ UNCHANGED <<arg, outcome, quad, r_max, rv, R, dpc>>

\* n returns n_max; in verify_2_14 the assert is next
n_return ==
    /\ dpc = "n_loop"
    /\ is_linear(mu_prime)
    /\ dpc' = IF arg.kind = "verify" THEN "assert" ELSE "n_done"
    /\ UNCHANGED <<arg, mu, outcome, quad, mu_prime, depth, r_max, n_max, rv, R>>

\* check.py, verify_2_14, one pass of its loop: mu = degree_to_mu(d), then the
\* calls C.m(i, 0) that make up R
verify_2_14 ==
    /\ dpc = "idle"
    /\ \E d \in 3..MaxLemma :
           /\ arg' = [kind |-> "verify", d |-> d, mult |-> 1, seq |-> <<>>]
           /\ mu' = degree_to_mu(d, 1)
           /\ Call("R", d, 0)
    /\ outcome' = "returned"
    /\ dpc' = "sum_R"
    /\ UNCHANGED <<quad, mu_prime, depth, r_max, n_max, rv, R>>

\* R is bound; n_min(mu), the left side of the assert, is evaluated next
verify_R ==
    /\ dpc = "sum_R"
    /\ call.status = "returned"
    /\ R' = NToInt(call.val.v)
    /\ dpc' = "r"
    /\ UNCHANGED <<arg, mu, outcome, quad, mu_prime, depth, r_max, n_max, rv>>

\* assert(n_min(mu) == n0(mu,R))
verify_assert ==
    /\ dpc = "assert"
    /\ dpc' = IF n_max = n0(mu, R) THEN "verified" ELSE "AssertionError"
    /\ UNCHANGED <<arg, mu, outcome, quad, mu_prime, depth, r_max, n_max, rv, R>>

(***************************************************************************)
(* ramero.py: w and r, which call each other, on an explicit call stack as *)
(* for CoeffComputer.  A frame is [fn, ds, pc, k, acc, rr]: the function,  *)
(* its argument, where it stands, the index and the sum of r's list        *)
(* comprehension, and r(ds_prime) once w has it.  The interpreter ends a   *)
(* recursion deeper than its limit with a RecursionError; MaxDepth is that *)
(* limit here.  The values stay within 32 bits for the inputs of the model.*)
(***************************************************************************)
VARIABLES rstack, rret, rcall

ramVars == <<rstack, rret, rcall>>

\* Bounds: multi-degrees of at most MaxCount entries in 1..MaxDeg, recursion
\* limit MaxDepth
MaxCount == 2
MaxDeg == 3
MaxDepth == 30

MultiDegrees == UNION {[1..len -> 1..MaxDeg] : len \in 0..MaxCount}

RFrame(f, ds) == [fn |-> f, ds |-> ds, pc |-> "start", k |-> 0, acc |-> 0, rr |-> 0]

RTop == rstack[Len(rstack)]

RRest == SubSeq(rstack, 1, Len(rstack) - 1)

\* the running invocation moves on to frame and calls g(ds); one call too
\* deep raises, and nothing on the stack catches
RInvoke(frame, g, ds) ==
    IF Len(rstack) >= MaxDepth
    THEN /\ rstack' = <<>>
         /\ rcall' = [rcall EXCEPT !.status = "raised", !.exc = "RecursionError"]
         /\ rret' = rret
    ELSE /\ rstack' = Append(Append(RRest, frame), RFrame(g, ds))
         /\ UNCHANGED <<rret, rcall>>

RReturn(v) ==
    /\ rstack' = RRest
    /\ rret' = v
    /\ rcall' = IF Len(rstack) = 1 THEN [rcall EXCEPT !.status = "returned", !.val = v]
                ELSE rcall

\* ds_prime = [d - 1 for d in ds]
ds_prime(ds) == [x \in 1..Len(ds) |-> ds[x] - 1]

\* math.comb(top, k) for 0 <= k <= top, in plain integers:
\* C(top, t) = C(top, t-1) * (top - t + 1) / t, by the shorter of the two ways
RECURSIVE comb_up(_, _)
comb_up(top, t) == IF t = 0 THEN 1 ELSE (comb_up(top, t - 1) * (top - t + 1)) \div t

comb_int(top, k) == comb_up(top, IF k < top - k THEN k ELSE top - k)

\* sum([comb(d + q, q) for d in ds]), from index x on
RECURSIVE e_sum(_, _, _)
e_sum(ds, q, x) ==
    IF x > Len(ds) THEN 0 ELSE comb_int(ds[x] + q, q) + e_sum(ds, q, x + 1)

\* e(ds, q) = q + ceil(Fraction(N, q+1)), for q >= 0
ramero_e(ds, q) == q + (e_sum(ds, q, 1) + q) \div (q + 1)

\* one term of r's sum: comb(d - 1 + w(ds), d - 1) - 1
r_term(d, wv) == comb_int(d - 1 + wv, d - 1) - 1

\* w(ds) up to its first call
w_enter ==
    /\ rstack # <<>> /\ RTop.fn = "w" /\ RTop.pc = "start"
    /\ LET ds == RTop.ds
       IN  IF ds = <<>> THEN RReturn(0)
           ELSE IF ds[1] = 1 THEN RInvoke([RTop EXCEPT !.pc = "tail"], "w", Tail(ds))
           ELSE IF Len(ds) = 1 /\ ds[1] = 2 THEN RReturn(0)
           ELSE RInvoke([RTop EXCEPT !.pc = "r"], "r", ds_prime(ds))

\* return w(ds[1:])
w_tail ==
    /\ rstack # <<>> /\ RTop.fn = "w" /\ RTop.pc = "tail"
    /\ RReturn(rret)

\* r(ds_prime) is back; e's argument w(ds_prime) is evaluated next
w_r ==
    /\ rstack # <<>> /\ RTop.fn = "w" /\ RTop.pc = "r"
    /\ RInvoke([RTop EXCEPT !.pc = "w", !.rr = rret], "w", ds_prime(RTop.ds))

\* return max(r(ds_prime) - 1, e(ds_prime, w(ds_prime)))
w_max ==
    /\ rstack # <<>> /\ RTop.fn = "w" /\ RTop.pc = "w"
    /\ LET left  == RTop.rr - 1
           right == ramero_e(ds_prime(RTop.ds), rret)
       IN  RReturn(IF left >= right THEN left ELSE right)

\* ramero_r_enter with the head kept in the head == 1 case: r(ds) + 1
ramero_r_enter_keep ==
    /\ rstack # <<>> /\ RTop.fn = "r" /\ RTop.pc = "start"
    /\ LET ds == RTop.ds
       IN  IF ds = <<>> THEN RReturn(0)
           ELSE IF ds[1] = 1 THEN RInvoke([RTop EXCEPT !.pc = "tail"], "r", ds)
           ELSE IF Len(ds) = 1 /\ ds[1] = 2 THEN RReturn(2)
           ELSE RInvoke([RTop EXCEPT !.pc = "sum", !.k = 1], "w", ds)

\* r(ds) up to its first call; the comprehension evaluates w(ds) once for
\* every d in ds
ramero_r_enter ==
    /\ rstack # <<>> /\ RTop.fn = "r" /\ RTop.pc = "start"
    /\ LET ds == RTop.ds
       IN  IF ds = <<>> THEN RReturn(0)
           ELSE IF ds[1] = 1 THEN RInvoke([RTop EXCEPT !.pc = "tail"], "r", Tail(ds))
           ELSE IF Len(ds) = 1 /\ ds[1] = 2 THEN RReturn(2)
           ELSE RInvoke([RTop EXCEPT !.pc = "sum", !.k = 1], "w", ds)

\* return r(ds[1:]) + 1
ramero_r_tail ==
    /\ rstack # <<>> /\ RTop.fn = "r" /\ RTop.pc = "tail"
    /\ RReturn(rret + 1)

\* the term for ds[k] joins the sum; the next w(ds), or return 1 + sum
ramero_r_sum ==
    /\ rstack # <<>> /\ RTop.fn = "r" /\ RTop.pc = "sum"
    /\ LET acc == RTop.acc + r_term(RTop.ds[RTop.k], rret)
       IN  IF RTop.k < Len(RTop.ds)
           THEN RInvoke([RTop EXCEPT !.k = @ + 1, !.acc = acc], "w", RTop.ds)
           ELSE RReturn(1 + acc)

NoRCall == [fn |-> "none", ds |-> <<>>, status |-> "none", val |-> 0, exc |-> ""]

InitRamero == rstack = <<>> /\ rret = 0 /\ rcall = NoRCall

\* the driver calls w(ds) or r(ds)
RCall ==
    /\ rstack = <<>>
    /\ rcall.status = "none"
    /\ \E f \in {"w", "r"}, ds \in MultiDegrees :
           /\ rstack' = <<RFrame(f, ds)>>
           /\ rcall' = [fn |-> f, ds |-> ds, status |-> "running", val |-> 0, exc |-> ""]
    /\ rret' = rret

(***************************************************************************)
(* The specifications.  Each runs one part of the program and leaves the   *)
(* others as constructed.                                                  *)
(***************************************************************************)
vars == <<coeffVars, dimVars, ramVars>>

Init == InitCoeff /\ InitDim /\ InitRamero

\* calls of m on one CoeffComputer
NextCoeff ==
    \/ Call_m /\ UNCHANGED <<dimVars, ramVars>>
    \/ m_enter /\ UNCHANGED <<dimVars, ramVars>>
    \/ m_prime /\ UNCHANGED <<dimVars, ramVars>>
    \/ m_store_first /\ UNCHANGED <<dimVars, ramVars>>
    \/ m_sum /\ UNCHANGED <<dimVars, ramVars>>

SpecCoeff == Init /\ [][NextCoeff]_vars

\* calls of m and of c on one CoeffComputer
Call_mc ==
    \E i \in 0..MaxCI :
        \/ \E j \in 0..MaxMJ : Call("m", i, j)
        \/ \E j \in 0..MaxCJ : Call("c", i, j)

NextMemo ==
    \/ Call_mc /\ UNCHANGED <<dimVars, ramVars>>
    \/ m_enter /\ UNCHANGED <<dimVars, ramVars>>
    \/ m_prime /\ UNCHANGED <<dimVars, ramVars>>
    \/ m_store_first /\ UNCHANGED <<dimVars, ramVars>>
    \/ m_sum /\ UNCHANGED <<dimVars, ramVars>>
    \/ b_enter /\ UNCHANGED <<dimVars, ramVars>>
    \/ b_comb /\ UNCHANGED <<dimVars, ramVars>>
    \/ b_div /\ UNCHANGED <<dimVars, ramVars>>
    \/ c_enter /\ UNCHANGED <<dimVars, ramVars>>
    \/ c_r /\ UNCHANGED <<dimVars, ramVars>>
    \/ c_lead /\ UNCHANGED <<dimVars, ramVars>>
    \/ c_term_b /\ UNCHANGED <<dimVars, ramVars>>
    \/ c_term_c /\ UNCHANGED <<dimVars, ramVars>>

SpecMemo == Init /\ [][NextMemo]_vars

\* one run of the dimension functions, or one pass of verify_2_14
NextDim ==
    \/ DegreeToMu /\ UNCHANGED <<coeffVars, ramVars>>
    \/ Literal /\ UNCHANGED <<coeffVars, ramVars>>
    \/ IsQuadric /\ UNCHANGED <<coeffVars, ramVars>>
    \/ n_min /\ UNCHANGED <<coeffVars, ramVars>>
    \/ r_enter /\ UNCHANGED <<coeffVars, ramVars>>
    \/ r_step /\ UNCHANGED <<coeffVars, ramVars>>
    \/ r_return /\ UNCHANGED <<coeffVars, ramVars>>
    \/ n_enter /\ UNCHANGED <<coeffVars, ramVars>>
    \/ n_step /\ UNCHANGED <<coeffVars, ramVars>>
    \/ n_return /\ UNCHANGED <<coeffVars, ramVars>>
    \/ verify_2_14 /\ UNCHANGED ramVars
    \/ R_enter /\ UNCHANGED <<dimVars, ramVars>>
    \/ R_sum /\ UNCHANGED <<dimVars, ramVars>>
    \/ m_enter /\ UNCHANGED <<dimVars, ramVars>>
    \/ m_prime /\ UNCHANGED <<dimVars, ramVars>>
    \/ m_store_first /\ UNCHANGED <<dimVars, ramVars>>
    \/ m_sum /\ UNCHANGED <<dimVars, ramVars>>
    \/ verify_R /\ UNCHANGED <<coeffVars, ramVars>>
    \/ verify_assert /\ UNCHANGED <<coeffVars, ramVars>>

SpecDim == Init /\ [][NextDim]_vars

\* The two loops by what decides them, the loop condition and the counter:
\* an iteration of r's or of n's loop, and the exit from it.
LoopStep ==
    /\ dpc \in {"r_loop", "n_loop"} /\ ~is_linear(mu_prime) /\ depth < MaxIter
    /\ depth' = depth + 1

LoopExit ==
    /\ dpc \in {"r_loop", "n_loop"} /\ is_linear(mu_prime)
    /\ dpc' = IF dpc = "r_loop" THEN "n"
              ELSE IF arg.kind = "verify" THEN "assert" ELSE "n_done"

\* a loop is not abandoned: while its condition holds the body runs, and when
\* it fails the function returns
FairSpecDim == SpecDim /\ WF_depth(LoopStep) /\ WF_dpc(LoopExit)

\* one call of w or of r
NextRamero ==
    \/ RCall /\ UNCHANGED <<coeffVars, dimVars>>
    \/ w_enter /\ UNCHANGED <<coeffVars, dimVars>>
    \/ w_tail /\ UNCHANGED <<coeffVars, dimVars>>
    \/ w_r /\ UNCHANGED <<coeffVars, dimVars>>
    \/ w_max /\ UNCHANGED <<coeffVars, dimVars>>
    \/ ramero_r_enter /\ UNCHANGED <<coeffVars, dimVars>>
    \/ ramero_r_tail /\ UNCHANGED <<coeffVars, dimVars>>
    \/ ramero_r_sum /\ UNCHANGED <<coeffVars, dimVars>>

SpecRamero == Init /\ [][NextRamero]_vars

\* a call in progress is not abandoned
FairSpecRamero == SpecRamero /\ WF_vars(NextRamero)


(***************************************************************************)
(* The recurrence of Lemma 2.6 (the docstring of m), row by row and        *)
(* without any table: rec_row(i)[j + 1] is m_{i,j} as a rational, for      *)
(* j in 0..rec_width(i).                                                   *)
(***************************************************************************)
rec_width(i) == (IF MaxI > MaxCI THEN MaxI ELSE MaxCI) - i
                    + (IF MaxJ > MaxCJ THEN MaxJ ELSE MaxCJ)

RECURSIVE rec_sum(_, _, _, _)
rec_sum(prev, p, j, k) ==
    IF k > j THEN <<>>
    ELSE NAdd(m_term(p, j, k, RatToInt(prev[k + 2])), rec_sum(prev, p, j, k + 1))

rec_entry(prev, j) ==
    LET p == RatToInt(prev[1])
    IN  IF j = 0 THEN m_first(p, RatToInt(prev[2]))
        ELSE RatAddInt(m_lead(p, j), rec_sum(prev, p, j, 0))

RECURSIVE rec_build(_, _, _)
rec_build(prev, j, hi) ==
    IF j > hi THEN <<>> ELSE <<rec_entry(prev, j)>> \o rec_build(prev, j + 1, hi)

RECURSIVE rec_row(_)
rec_row(i) ==
    IF i = 0
    THEN [x \in 1..(rec_width(0) + 1) |-> [num |-> IF x = 1 THEN <<1>> ELSE <<>>, den |-> 1]]
    ELSE LET prev == rec_row(i - 1)
         IN  IF prev = <<>> THEN <<>> ELSE rec_build(prev, 0, rec_width(i))

rec_table == [i \in 0..(IF MaxI > MaxCI THEN MaxI ELSE MaxCI) |-> rec_row(i)]

(***************************************************************************)
(* Figure 1 of the paper as check.py has it (verify_values): rows i = 3..8,*)
(* columns j = 0..3.                                                       *)
(***************************************************************************)
table ==
    << <<Lit(<<1>>), Lit(<<3>>), Lit(<<4>>), Lit(<<5>>)>>,
       <<Lit(<<3>>), Lit(<<8>>), Lit(<<13>>), Lit(<<19>>)>>,
       <<Lit(<<11>>), Lit(<<48>>), Lit(<<127>>), Lit(<<275>>)>>,
       <<Lit(<<103>>), Lit(<<1, 106>>), Lit(<<7, 051>>), Lit(<<33, 955>>)>>,
       <<Lit(<<6, 359>>), Lit(<<485, 280>>), Lit(<<21, 029, 990>>),
         Lit(<<654, 279, 500>>)>>,
       <<Lit(<<20, 700, 541>>), Lit(<<88, 819, 638, 509>>),
         Lit(<<214, 404, 499, 562, 520>>), Lit(<<368, 104, 651, 084, 030, 885>>)>> >>

Returned(f) == call.fn = f /\ call.status = "returned"

(***************************************************************************)
(* C1: m(0,0) = 1, m(0,j) = 0 for j in 1..3, and m(i,j) for i in 3..8,     *)
(* j in 0..3 is the entry in row i-3, column j of the literal table -- on  *)
(* a fresh CoeffComputer and, as checked here, after any calls of m.       *)
(***************************************************************************)
C1_TableValues ==
    Returned("m") =>
        /\ call.i = 0 /\ call.j \in 0..3 =>
               call.val = IntVal(IF call.j = 0 THEN <<1>> ELSE <<>>)
        /\ call.i \in 3..8 /\ call.j \in 0..3 =>
               call.val = IntVal(table[call.i - 2][call.j + 1])

C1_Witness ==
    /\ Returned("m") /\ call.first /\ call.i = 8 /\ call.j = 3
    /\ call.val.v = Lit(<<368, 104, 651, 084, 030, 885>>)

(***************************************************************************)
(* C4: every value the recurrence of m produces (every entry stored in     *)
(* _ms, i >= 1, j >= 0) is an exact integer: in lowest terms its           *)
(* denominator is 1, so int() -- on the fresh computation and on a memo    *)
(* hit -- drops no fractional part.                                        *)
(***************************************************************************)
C4_Integral == \A key \in DOMAIN ms : ms[key].den = 1

C4_Witness ==
    /\ <<8, 3>> \in DOMAIN ms /\ <<7, 4>> \in DOMAIN ms /\ <<2, 9>> \in DOMAIN ms
    /\ Returned("m")

(***************************************************************************)
(* C7: c(i, j) raises iff i <= 6 or j = 0; a call outside the domain       *)
(* raises (the bare Exception) without adding an entry to either table; a  *)
(* call inside the domain only ever makes recursive calls c(i', j') with   *)
(* i' >= 7 and j' >= 1, and does not raise.                                *)
(***************************************************************************)
C7_Domain ==
    call.fn = "c" =>
        /\ call.status \in {"returned", "raised"} =>
               (call.status = "raised" <=> (call.i <= 6 \/ call.j = 0))
        /\ call.status = "raised" =>
               /\ call.exc = "Exception"
               /\ Cardinality(DOMAIN ms) = call.n_ms
               /\ Cardinality(DOMAIN cs) = call.n_cs
        /\ call.i > 6 /\ call.j >= 1 =>
               \A x \in 1..Len(stack) :
                   stack[x].fn = "c" => stack[x].i >= 7 /\ stack[x].j >= 1

C7_Witness ==
    /\ Returned("c") /\ call.i = 8 /\ call.j = 1 /\ call.val = FloatVal
    /\ <<8, 1>> \in DOMAIN cs

(***************************************************************************)
(* C9: after any calls of m and c on one instance, every key <<i, j>> of   *)
(* _ms has i >= 1 and holds the value of the recurrence; a step never      *)
(* changes or removes a stored entry; and m(i, j) returns that value       *)
(* whatever was called before.                                             *)
(***************************************************************************)
C9_Consistent ==
    /\ \A key \in DOMAIN ms :
           key[1] >= 1 /\ ms[key] = rec_table[key[1]][key[2] + 1]
    /\ Returned("m") => call.val = IntVal(RatToInt(rec_table[call.i][call.j + 1]))

C9_AppendOnly ==
    [][\A key \in DOMAIN ms : key \in DOMAIN ms' /\ ms'[key] = ms[key]]_vars

C9_Memo == []C9_Consistent /\ C9_AppendOnly

C9_Witness ==
    /\ Returned("m") /\ ~call.first /\ call.i = 8 /\ call.j = 0
    /\ call.n_ms = Cardinality(DOMAIN ms) /\ DOMAIN cs # {}


(***************************************************************************)
(* check.py, verify_values: the numbers n(d) for d = 3..9.                 *)
(***************************************************************************)
values ==
    << Lit(<<4>>), Lit(<<9>>), Lit(<<22>>), Lit(<<160>>), Lit(<<20, 376>>),
       Lit(<<11, 914, 188, 890>>),
       Lit(<<8, 616, 199, 237, 736, 295, 920, 955, 120>>) >>

(***************************************************************************)
(* C2: for every d in 3..9, n_min(degree_to_mu(d)) is the entry for d of   *)
(* [4, 9, 22, 160, 20376, 11914188890, 8616199237736295920955120].         *)
(***************************************************************************)
C2_Values ==
    dpc = "n_done" /\ arg.kind = "degree" /\ arg.mult = 1 /\ arg.d \in 3..9 =>
        n_max = ZNat(values[arg.d - 2])

C2_Witness ==
    /\ dpc = "n_done" /\ arg.kind = "degree" /\ arg.mult = 1 /\ arg.d = 9
    /\ depth = 6479
    /\ n_max = ZNat(Lit(<<8, 616, 199, 237, 736, 295, 920, 955, 120>>))

(***************************************************************************)
(* C3: for every d in 3..7, with mu = degree_to_mu(d) and R the sum of     *)
(* m(0,0), ..., m(d-2,0) from the coefficient table, r(mu) is R, the       *)
(* maximum n keeps is n0(mu, R) from the start of its loop to its end (no  *)
(* penta step raises it), and the assert n_min(mu) == n0(mu, R) holds.     *)
(***************************************************************************)
C3_Lemma ==
    /\ dpc # "AssertionError"
    /\ arg.kind = "verify" /\ dpc \in {"n_loop", "assert", "verified"} =>
           rv = R /\ n_max = n0(mu, R)

C3_Witness ==
    /\ dpc = "verified" /\ arg.d = 7 /\ R = 17 /\ rv = 17
    /\ n_max = ZNat(Lit(<<20, 376>>))
    /\ <<5, 0>> \in DOMAIN ms

(***************************************************************************)
(* C5: for every finite sequence of non-negative integers, the empty one   *)
(* and those of length 1 included, is_quadric returns true iff the entry   *)
(* at index 1 is exactly 1 and every entry at an index > 1 is zero.        *)
(***************************************************************************)
C5_Quadric ==
    dpc = "quadric" =>
        (quad <=> /\ Len(mu) >= 2
                  /\ mu[2] = 1
                  /\ \A x \in 3..Len(mu) : mu[x] = 0)

(***************************************************************************)
(* C6: from every finite sequence of non-negative integers the loops of r  *)
(* and of n reach a linear sequence and end: a run inside a loop leaves it,*)
(* and every iteration replaces mu_prime by a sequence that, trailing      *)
(* zeros aside, is shorter or is smaller at the last index where the two   *)
(* differ.                                                                 *)
(***************************************************************************)
C6_Smaller ==
    dpc \in {"r_loop", "n_loop"} /\ dpc' = dpc =>
        LET old == trim(mu_prime)
            new == trim(mu_prime')
        IN  \/ Len(new) < Len(old)
            \/ /\ Len(new) = Len(old)
               /\ \E x \in 1..Len(old) :
                      /\ new[x] < old[x]
                      /\ \A y \in (x + 1)..Len(old) : new[y] = old[y]

C6_Terminates ==
    /\ (dpc = "r_loop") ~> (dpc = "n")
    /\ (dpc = "n_loop") ~> (dpc \in {"n_done", "assert"})
    /\ [][C6_Smaller]_vars

C6_Witness ==
    /\ dpc = "n" /\ arg.kind = "literal" /\ arg.seq = <<2, 0, 2>>
    /\ depth > 0 /\ is_linear(mu_prime)

(***************************************************************************)
(* C8, as claimed: degree_to_mu(d, m) with d < 1 raises instead of         *)
(* returning a sequence; for d >= 1 it returns a sequence of length d      *)
(* whose last entry is m and whose other entries are 0.                    *)
(***************************************************************************)
C8_Raises ==
    dpc = "have_mu" /\ arg.kind = "degree" =>
        IF arg.d < 1 THEN outcome = "raised"
        ELSE /\ outcome = "returned"
             /\ Len(mu) = arg.d /\ mu[arg.d] = arg.mult
             /\ \A x \in 1..(arg.d - 1) : mu[x] = 0

(***************************************************************************)
(* C8, amended: degree_to_mu(d, m) never raises; with d < 1 it returns the *)
(* empty sequence, and for d >= 1 a sequence of length d whose last entry  *)
(* is m and whose other entries are 0.                                     *)
(***************************************************************************)
C8_Returns ==
    dpc = "have_mu" /\ arg.kind = "degree" =>
        /\ outcome = "returned"
        /\ IF arg.d < 1 THEN mu = <<>>
           ELSE /\ Len(mu) = arg.d /\ mu[arg.d] = arg.mult
                /\ \A x \in 1..(arg.d - 1) : mu[x] = 0

C8_Witness ==
    /\ dpc = "have_mu" /\ arg.kind = "degree" /\ arg.d = 0 - 1 /\ arg.mult = 2
    /\ outcome = "returned" /\ mu = <<>>

\* ds is non-decreasing
Sorted(ds) == \A x \in 1..(Len(ds) - 1) : ds[x] <= ds[x + 1]

\* no invocation in progress has an argument with an entry <= 0, and the
\* recursion has not run away
Positive ==
    /\ \A x \in 1..Len(rstack) : \A y \in 1..Len(rstack[x].ds) : rstack[x].ds[y] >= 1
    /\ rcall.exc # "RecursionError"

(***************************************************************************)
(* C10, as claimed: for every finite sequence of positive integers, in any *)
(* order, w(ds) and r(ds) never descend into a sequence with an entry <= 0 *)
(* and reach their base cases.                                             *)
(***************************************************************************)
C10_AnyOrder == Positive

(***************************************************************************)
(* C10, amended: for every non-decreasing finite sequence of positive      *)
(* integers, w(ds) and r(ds) only ever descend into non-decreasing         *)
(* sequences of positive integers, to a depth of at most                   *)
(* 2 * (sum(ds) + len(ds)) + 2 nested calls, and the call returns.         *)
(***************************************************************************)
C10_Sorted ==
    /\ [](Sorted(rcall.ds) =>
             /\ Positive
             /\ \A x \in 1..Len(rstack) : Sorted(rstack[x].ds)
             /\ Len(rstack) <= 2 * (sum(rcall.ds) + Len(rcall.ds)) + 2)
    /\ (rcall.status = "running" /\ Sorted(rcall.ds)) ~> (rcall.status = "returned")

C10_Witness ==
    /\ rcall.status = "returned" /\ rcall.fn = "r" /\ rcall.ds = <<3, 3>>
    /\ rcall.val = 55

=============================================================================
